---- MODULE Spec2Model ----
(***************************************************************************)
(* The d10 dice-pool roller of src/roller/roller.ts: d10, countSuccesses,  *)
(* rollDice, reroll (with its cascade recursion) and roll.                 *)
(*                                                                         *)
(* One behaviour is one top-level call.  Every call of d10 is one step, so *)
(* the faces drawn are the nondeterminism of the model.  The recursion of  *)
(* reroll is kept as a stack of suspended callers.                         *)
(*                                                                         *)
(* Arguments are well typed: a roll is an array of numbers (a single die   *)
(* is the one-element array lines 43 and 94 coerce it to), rerollArray is  *)
(* an array of numbers, numDice is a number; the type checks of lines 37,  *)
(* 41, 42, 47, 63, 82 and 85-88 therefore never throw and are left out.    *)
(***************************************************************************)
EXTENDS Integers, Sequences, FiniteSets, TLC

\* ---------------------------------------------------------------- bounds
\* longest roll argument given to reroll
MaxLen == 2
\* a freshly drawn die may show a rerolled face (and so deepen the cascade)
\* only while fewer than MaxFresh dice have been drawn by the call
MaxFresh == 2
\* largest numDice given to rollDice and roll
MaxDice == 2
\* longest roll argument given to countSuccesses
MaxCount == 2

\* ------------------------------------------------------ JavaScript values
\* an omitted (undefined) numeric option, which takes the parameter default
Undefined == -1000
\* the boolean false that reroll's map leaves in the slot of a die it keeps
False == -1

Default(v, d) == IF v = Undefined THEN d ELSE v

\* lodash isEmpty on an array
isEmpty(s) == Len(s) = 0

\* lodash compact: the elements that are not falsy (0 and false here)
RECURSIVE compact(_)
compact(s) ==
  IF s = <<>> THEN <<>>
  ELSE IF Head(s) = 0 \/ Head(s) = False THEN compact(Tail(s))
       ELSE <<Head(s)>> \o compact(Tail(s))

\* Array.prototype.includes
includes(s, x) == \E k \in 1..Len(s) : s[k] = x

\* lodash range(start, end): start, start+1, ..., end-1
range(start, end) == [k \in 1..(end - start) |-> start + k - 1]

\* ------------------------------------------------------------------ d10
\* the faces sample(range(1, 10)) can pick
D10Faces == {range(1, 10)[k] : k \in DOMAIN range(1, 10)}

\* ------------------------------------------------------- countSuccesses
\* the reduce callback's increment for one die
ScoreOffByOne(r, targetNumber, double) ==
  IF r >= targetNumber THEN (IF r > double THEN 2 ELSE 1) ELSE 0

Score(r, targetNumber, double) ==
  IF r >= targetNumber THEN (IF r >= double THEN 2 ELSE 1) ELSE 0

\* reduce(rollArray, callback, acc): a left fold
RECURSIVE reduce(_, _, _, _)
reduce(rollArray, acc, targetNumber, double) ==
  IF rollArray = <<>> THEN acc
  ELSE reduce(Tail(rollArray), acc + Score(Head(rollArray), targetNumber, double),
              targetNumber, double)

\* the range check of the reduce callback throws
CountThrows(rollArray) ==
  \E k \in 1..Len(rollArray) : rollArray[k] <= 0 \/ rollArray[k] > 10

countSuccesses(rollArg, c) ==
  reduce(rollArg, Default(c.autosuccesses, 0),
         Default(c.targetNumber, 7), Default(c.double, 10))

\* --------------------------------------------------------------- reroll
\* every(times(10, i => rerollSet.has(i + 1)))
CoversShifted(rerollArr) ==
  LET rerollSet == {rerollArr[k] : k \in 1..Len(rerollArr)}
  IN  \A i \in 0..9 : i \in rerollSet

CoversAllFaces(rerollArr) ==
  LET rerollSet == {rerollArr[k] : k \in 1..Len(rerollArr)}
  IN  \A i \in 0..9 : (i + 1) \in rerollSet

\* if (cascade)
CascadeAlways(casc) == TRUE

CascadeTaken(casc) == casc

\* the cascade parameter of the recursive call, which passes only
\* { rerollArray, append: true }: the default, true
RecursiveCascadeOff == FALSE

RecursiveCascade == TRUE

\* compact([...(append ? rollArray : []), ...rerolls])
ConcatRerollsFirst(app, rollArr, rerollsArr) ==
  compact(rerollsArr \o (IF app THEN rollArr ELSE <<>>))

ConcatNoAppend(app, rollArr, rerollsArr) == compact(rerollsArr)

Concat(app, rollArr, rerollsArr) ==
  compact((IF app THEN rollArr ELSE <<>>) \o rerollsArr)

\* ----------------------------------------------------------------- roll
\* the dice roll hands to countSuccesses
ScoredDiceResult(pool, final) == final

ScoredDice(pool, final) == pool

BotchRawPool(succ, pool, final) == succ = 0 /\ includes(pool, 1)

Botch(succ, pool, final) == succ = 0 /\ includes(final, 1)

\* ================================================================ state
VARIABLES
  op,          \* the exported function called: "none" before the call
  pc,          \* where the call stands
  roll,        \* the roll argument of countSuccesses or of the reroll call
  opts,        \* the append and cascade options of the top-level reroll call
  cfg,         \* targetNumber, double, autosuccesses as passed (or Undefined)
  numDice,     \* the numDice argument of rollDice or roll
  theRoll,     \* the dice rollDice has drawn so far (roll's theRoll)
  rerollArray, \* reroll's rerollArray option
  arg,         \* the roll argument of the reroll activation being entered
  append,      \* the running activation's append
  cascade,     \* the running activation's cascade
  rollArray,   \* the running activation's rollArray
  rerolls,     \* the running activation's rerolls, filled slot by slot by map
  stack,       \* the suspended callers of the running activation, outermost first
  ret,         \* the value the last finished activation returned
  fresh,       \* every die d10 has drawn for reroll, in the order drawn
  face,        \* what a direct call of d10 returned
  result,      \* what reroll returned to its top-level caller (roll's result)
  successes,   \* what countSuccesses returned (roll's successes)
  diceRolled,  \* roll's diceRolled
  botch        \* roll's botch

vars == <<op, pc, roll, opts, cfg, numDice, theRoll, rerollArray, arg, append,
          cascade, rollArray, rerolls, stack, ret, fresh, face, result,
          successes, diceRolled, botch>>

rerollVars == <<rerollArray, arg, append, cascade, rollArray, rerolls, stack,
                ret, fresh>>
outVars == <<face, result, successes, diceRolled, botch>>

\* ------------------------------------------------------- the arguments
\* faces of a roll argument given to reroll: a falsy slot, a low and a high face
InputFaces == {0, 1, 10}
\* faces of a roll argument given to countSuccesses, the out-of-range ones included
CountFaces == 0..11
SeqsUpTo(S, n) == UNION {[1..k -> S] : k \in 0..n}

RerollArrays ==
  { <<>>, <<1>>, <<2, 1, 2>>, range(1, 10), range(1, 11), <<1>> \o range(1, 11) }

TargetNumbers == {Undefined, 3, 11}
Doubles == {Undefined, 2, 5}
Autosuccesses == {Undefined, 2}

NoConfig ==
  [targetNumber |-> Undefined, double |-> Undefined, autosuccesses |-> Undefined]

\* the config objects given to roll
RollConfigs ==
  [ count : {NoConfig, [targetNumber |-> 3, double |-> 5, autosuccesses |-> 1]},
    rerollArray : {<<>>, <<2>>, range(1, 11)},
    cascade : BOOLEAN ]

Init ==
  /\ op = "none"
  /\ pc = "idle"
  /\ roll = <<>>
  /\ opts = [append |-> TRUE, cascade |-> TRUE]
  /\ cfg = NoConfig
  /\ numDice = 0
  /\ theRoll = <<>>
  /\ rerollArray = <<>>
  /\ arg = <<>>
  /\ append = TRUE
  /\ cascade = TRUE
  /\ rollArray = <<>>
  /\ rerolls = <<>>
  /\ stack = <<>>
  /\ ret = <<>>
  /\ fresh = <<>>
  /\ face = 0
  /\ result = <<>>
  /\ successes = 0
  /\ diceRolled = 0
  /\ botch = FALSE

\* ------------------------------------------------------------------ d10
CallD10 ==
  /\ pc = "idle"
  /\ op' = "d10"
  /\ pc' = "d10"
  /\ UNCHANGED <<roll, opts, cfg, numDice, theRoll, rerollVars, outVars>>

\* sample picks one face; it is never falsy, so the throw is not taken
D10Return(f) ==
  /\ pc = "d10"
  /\ f \in D10Faces
  /\ face' = f
  /\ pc' = "done"
  /\ UNCHANGED <<op, roll, opts, cfg, numDice, theRoll, rerollVars, result,
                 successes, diceRolled, botch>>

\* ------------------------------------------------------- countSuccesses
CallCountSuccesses ==
  /\ pc = "idle"
  /\ \E r \in SeqsUpTo(CountFaces, MaxCount),
        c \in [targetNumber : TargetNumbers, double : Doubles,
               autosuccesses : Autosuccesses] :
       /\ roll' = r
       /\ cfg' = c
  /\ op' = "countSuccesses"
  /\ pc' = "count"
  /\ UNCHANGED <<opts, numDice, theRoll, rerollVars, outVars>>

CountSuccessesThrow ==
  /\ op = "countSuccesses"
  /\ pc = "count"
  /\ CountThrows(roll)
  /\ pc' = "error"
  /\ UNCHANGED <<op, roll, opts, cfg, numDice, theRoll, rerollVars, outVars>>

CountSuccessesReturn ==
  /\ op = "countSuccesses"
  /\ pc = "count"
  /\ ~CountThrows(roll)
  /\ successes' = countSuccesses(roll, cfg)
  /\ pc' = "done"
  /\ UNCHANGED <<op, roll, opts, cfg, numDice, theRoll, rerollVars, face,
                 result, diceRolled, botch>>

\* ------------------------------------------------------------- rollDice
CallRollDice ==
  /\ pc = "idle"
  /\ \E n \in -1..MaxDice : numDice' = n
  /\ op' = "rollDice"
  /\ pc' = "rollDice"
  /\ UNCHANGED <<roll, opts, cfg, theRoll, rerollVars, outVars>>

RollDiceThrow ==
  /\ pc = "rollDice"
  /\ numDice < 0
  /\ pc' = "error"
  /\ UNCHANGED <<op, roll, opts, cfg, numDice, theRoll, rerollVars, outVars>>

\* times(numDice, d10): one call of d10
RollDiceDraw(f) ==
  /\ pc = "rollDice"
  /\ numDice >= 0
  /\ Len(theRoll) < numDice
  /\ f \in D10Faces
  /\ theRoll' = Append(theRoll, f)
  /\ UNCHANGED <<op, pc, roll, opts, cfg, numDice, rerollVars, outVars>>

RollDiceReturn ==
  /\ op = "rollDice"
  /\ pc = "rollDice"
  /\ numDice >= 0
  /\ Len(theRoll) = numDice
  /\ result' = theRoll
  /\ pc' = "done"
  /\ UNCHANGED <<op, roll, opts, cfg, numDice, theRoll, rerollVars, face,
                 successes, diceRolled, botch>>

\* --------------------------------------------------------------- reroll
CallReroll ==
  /\ pc = "idle"
  /\ \E r \in SeqsUpTo(InputFaces, MaxLen), ra \in RerollArrays,
        app \in BOOLEAN, casc \in BOOLEAN :
       /\ roll' = r
       /\ opts' = [append |-> app, cascade |-> casc]
       /\ rerollArray' = ra
       /\ arg' = r
       /\ append' = app
       /\ cascade' = casc
  /\ op' = "reroll"
  /\ pc' = "entry"
  /\ UNCHANGED <<cfg, numDice, theRoll, rollArray, rerolls, stack, ret, fresh,
                 outVars>>

\* the validation every activation runs first: the throw unwinds every caller
RerollThrow ==
  /\ pc = "entry"
  /\ CoversAllFaces(rerollArray)
  /\ pc' = "error"
  /\ UNCHANGED <<op, roll, opts, cfg, numDice, theRoll, rerollVars, outVars>>

\* return v from the running activation, whose rollArray is ra: into the
\* assignment to the caller's rerolls (line 102), or out of the top-level call
Return(v, ra) ==
  IF stack # <<>>
    THEN LET caller == stack[Len(stack)]
         IN  /\ rollArray' = caller.rollArray
             /\ append' = caller.append
             /\ cascade' = caller.cascade
             /\ stack' = SubSeq(stack, 1, Len(stack) - 1)
             /\ rerolls' = v
             /\ pc' = "concat"
             /\ UNCHANGED ret
    ELSE /\ ret' = v
         /\ rollArray' = ra
         /\ pc' = "return"
         /\ UNCHANGED <<append, cascade, stack, rerolls>>

\* if (isEmpty(rollArray)) return []
RerollEmpty ==
  /\ pc = "entry"
  /\ ~CoversAllFaces(rerollArray)
  /\ isEmpty(compact(arg))
  /\ Return(<<>>, compact(arg))
  /\ UNCHANGED <<op, roll, opts, cfg, numDice, theRoll, rerollArray, arg,
                 fresh, outVars>>

RerollEnter ==
  /\ pc = "entry"
  /\ ~CoversAllFaces(rerollArray)
  /\ ~isEmpty(compact(arg))
  /\ rollArray' = compact(arg)
  /\ rerolls' = <<>>
  /\ pc' = "map"
  /\ UNCHANGED <<op, roll, opts, cfg, numDice, theRoll, rerollArray, arg,
                 append, cascade, stack, ret, fresh, outVars>>

\* map's callback on a die whose face is in rerollArray: d10()
MapDraw(f) ==
  /\ pc = "map"
  /\ Len(rerolls) < Len(rollArray)
  /\ includes(rerollArray, rollArray[Len(rerolls) + 1])
  /\ f \in D10Faces
  /\ (cascade /\ includes(rerollArray, f)) => Len(fresh) < MaxFresh
  /\ rerolls' = Append(rerolls, f)
  /\ fresh' = Append(fresh, f)
  /\ UNCHANGED <<op, pc, roll, opts, cfg, numDice, theRoll, rerollArray, arg,
                 append, cascade, rollArray, stack, ret, outVars>>

\* map's callback on any other die: false
MapKeep ==
  /\ pc = "map"
  /\ Len(rerolls) < Len(rollArray)
  /\ ~includes(rerollArray, rollArray[Len(rerolls) + 1])
  /\ rerolls' = Append(rerolls, False)
  /\ UNCHANGED <<op, pc, roll, opts, cfg, numDice, theRoll, rerollArray, arg,
                 append, cascade, rollArray, stack, ret, fresh, outVars>>

\* if (cascade) rerolls = reroll(rerolls, { rerollArray, append: true })
Cascade ==
  /\ pc = "map"
  /\ Len(rerolls) = Len(rollArray)
  /\ CascadeTaken(cascade)
  /\ stack' = Append(stack, [rollArray |-> rollArray, append |-> append,
                             cascade |-> cascade])
  /\ arg' = rerolls
  /\ append' = TRUE
  /\ cascade' = RecursiveCascade
  /\ pc' = "entry"
  /\ UNCHANGED <<op, roll, opts, cfg, numDice, theRoll, rerollArray, rollArray,
                 rerolls, ret, fresh, outVars>>

NoCascade ==
  /\ pc = "map"
  /\ Len(rerolls) = Len(rollArray)
  /\ ~CascadeTaken(cascade)
  /\ pc' = "concat"
  /\ UNCHANGED <<op, roll, opts, cfg, numDice, theRoll, rerollVars, outVars>>

\* return compact([...(append ? rollArray : []), ...rerolls])
RerollConcat ==
  /\ pc = "concat"
  /\ Return(Concat(append, rollArray, rerolls), rollArray)
  /\ UNCHANGED <<op, roll, opts, cfg, numDice, theRoll, rerollArray, arg,
                 fresh, outVars>>

\* the top-level activation returns to the caller of reroll
RerollReturn ==
  /\ op = "reroll"
  /\ pc = "return"
  /\ stack = <<>>
  /\ result' = ret
  /\ pc' = "done"
  /\ UNCHANGED <<op, roll, opts, cfg, numDice, theRoll, rerollVars, face,
                 successes, diceRolled, botch>>

\* ----------------------------------------------------------------- roll
CallRoll ==
  /\ pc = "idle"
  /\ \E n \in -1..MaxDice, c \in RollConfigs :
       /\ numDice' = n
       /\ cfg' = c.count
       /\ rerollArray' = c.rerollArray
       /\ opts' = [append |-> TRUE, cascade |-> c.cascade]
  /\ op' = "roll"
  /\ pc' = "rollDice"
  /\ UNCHANGED <<roll, theRoll, arg, append, cascade, rollArray, rerolls,
                 stack, ret, fresh, outVars>>

\* const result = reroll(theRoll, { rerollArray, append: true, cascade })
RollReroll ==
  /\ op = "roll"
  /\ pc = "rollDice"
  /\ numDice >= 0
  /\ Len(theRoll) = numDice
  /\ roll' = theRoll
  /\ arg' = theRoll
  /\ append' = TRUE
  /\ cascade' = opts.cascade
  /\ pc' = "entry"
  /\ UNCHANGED <<op, opts, cfg, numDice, theRoll, rerollArray, rollArray,
                 rerolls, stack, ret, fresh, outVars>>

\* countSuccesses and the returned record
RollReturn ==
  /\ op = "roll"
  /\ pc = "return"
  /\ stack = <<>>
  /\ IF CountThrows(ScoredDice(theRoll, ret))
       THEN /\ pc' = "error"
            /\ UNCHANGED outVars
       ELSE /\ result' = ret
            /\ diceRolled' = Len(ret)
            /\ successes' = countSuccesses(ScoredDice(theRoll, ret), cfg)
            /\ botch' = Botch(countSuccesses(ScoredDice(theRoll, ret), cfg),
                              theRoll, ret)
            /\ pc' = "done"
            /\ UNCHANGED face
  /\ UNCHANGED <<op, roll, opts, cfg, numDice, theRoll, rerollVars>>

Next ==
  \/ CallD10
  \/ \E f \in 1..10 : D10Return(f)
  \/ CallCountSuccesses
  \/ CountSuccessesThrow
  \/ CountSuccessesReturn
  \/ CallRollDice
  \/ RollDiceThrow
  \/ \E f \in 1..10 : RollDiceDraw(f)
  \/ RollDiceReturn
  \/ CallReroll
  \/ RerollThrow
  \/ RerollEmpty
  \/ RerollEnter
  \/ \E f \in 1..10 : MapDraw(f)
  \/ MapKeep
  \/ Cascade
  \/ NoCascade
  \/ RerollConcat
  \/ RerollReturn
  \/ CallRoll
  \/ RollReroll
  \/ RollReturn

Spec == Init /\ [][Next]_vars

\* Fair die draws: a step that can be taken is taken, and a face that d10 can
\* show again and again is eventually shown.  (Within MaxFresh a cascade whose
\* every fresh die must show a rerolled face stops at the draw the bound
\* forbids instead of recursing forever.)
Fairness ==
  /\ WF_vars(Next)
  /\ \A f \in 1..10 : SF_vars(MapDraw(f))

FairSpec == Spec /\ Fairness

\* =============================================================== claims
\* the reroll call's roll argument without its falsy slots
FilteredInput == SelectSeq(roll, LAMBDA x : x # 0)
\* the faces rerollArray names
RerollFaces == {rerollArray[k] : k \in 1..Len(rerollArray)}
\* how many dice of s show a face rerollArray names
Qualifying(s) == Cardinality({k \in 1..Len(s) : s[k] \in RerollFaces})
HowMany(s, P(_)) == Cardinality({k \in 1..Len(s) : P(s[k])})
RerollDone == op = "reroll" /\ pc = "done"
RollDone == op = "roll" /\ pc = "done"

\* C1: the cascade of a validated reroll terminates under fair die draws.
\* A pass that ends the cascade needs d10 to be able to show a face outside
\* rerollArray: whenever a validated activation is about to draw for a
\* rerolled die, some face outside rerollArray can be drawn.
C1_CascadeCanEnd ==
  (op = "reroll" /\ opts.cascade /\ pc = "map" /\ Len(rerolls) < Len(rollArray)
     /\ rollArray[Len(rerolls) + 1] \in RerollFaces)
  => \E f \in 1..10 : f \notin RerollFaces /\ ENABLED MapDraw(f)

\* C1, as a liveness property of FairSpec: a validated reroll call with
\* cascade:true eventually returns.
C1_CascadeTerminates ==
  (op = "reroll" /\ pc = "entry" /\ stack = <<>> /\ opts.cascade
     /\ ~(1..10 \subseteq RerollFaces))
  ~> (pc = "done")

\* C2: d10 returns exactly the faces 1..10: every result is in 1..10 and each
\* of the ten faces, 10 included, can be the result of a call.
C2_D10ReturnsOneToTen ==
  /\ (op = "d10" /\ pc = "done") => face \in 1..10
  /\ (op = "d10" /\ pc = "d10") => \A f \in 1..10 : ENABLED D10Return(f)

\* C3 as stated: botch is true exactly when successes is 0 and the raw pool
\* (theRoll) holds a 1.
C3_BotchFromRawPool ==
  RollDone => (botch <=> (successes = 0 /\ \E k \in 1..Len(theRoll) : theRoll[k] = 1))

\* C3 as amended: botch is true exactly when successes is 0 and the final
\* result (the raw pool followed by the rerolled dice) holds a 1.
C3_BotchFromResult ==
  RollDone => (botch <=> (successes = 0 /\ \E k \in 1..Len(result) : result[k] = 1))

\* a roll that botches on a 1 shown by a rerolled die only
C3_Witness ==
  /\ RollDone
  /\ botch
  /\ \A k \in 1..Len(theRoll) : theRoll[k] # 1
  /\ \E k \in 1..Len(fresh) : fresh[k] = 1

\* C4: roll's successes are countSuccesses of the raw pool under the configured
\* (or default 7, 10, 0) thresholds, whatever the rerolled dice show.
C4_SuccessesFromRawPool ==
  RollDone =>
    LET tn == IF cfg.targetNumber = Undefined THEN 7 ELSE cfg.targetNumber
        db == IF cfg.double = Undefined THEN 10 ELSE cfg.double
        au == IF cfg.autosuccesses = Undefined THEN 0 ELSE cfg.autosuccesses
        AtTarget(r) == r >= tn
        AtDouble(r) == r >= tn /\ r >= db
    IN  successes = au + HowMany(theRoll, AtTarget) + HowMany(theRoll, AtDouble)

\* a roll whose rerolled dice would score
C4_Witness ==
  /\ RollDone
  /\ \E k \in 1..Len(fresh) : fresh[k] >= 7
  /\ cfg.targetNumber = Undefined

\* C5: reroll with a rerollArray covering 1..10 throws for every roll, before
\* any die is drawn and without a result.
C5_FullCoverThrowsFirst ==
  (op = "reroll" /\ 1..10 \subseteq RerollFaces) =>
    /\ pc \in {"entry", "error"}
    /\ fresh = <<>>
    /\ stack = <<>>
    /\ result = <<>> /\ ret = <<>> /\ rerolls = <<>>

\* the throw on a roll with no die in it and a rerollArray with a repeated face
C5_Witness ==
  /\ op = "reroll" /\ pc = "error"
  /\ FilteredInput = <<>>
  /\ Len(rerollArray) > 10

\* C6: with cascade:false reroll makes one pass: it draws one die per die of
\* the filtered input whose face is in rerollArray and rerolls no fresh die.
C6_OnePass ==
  (op = "reroll" /\ ~opts.cascade) =>
    /\ stack = <<>>
    /\ Len(fresh) <= Qualifying(FilteredInput)
    /\ pc \in {"concat", "return", "done"} /\ FilteredInput # <<>>
         => Len(fresh) = Qualifying(FilteredInput)
    /\ pc = "done" => Len(fresh) = Qualifying(FilteredInput)

\* a one-pass reroll that drew a die showing a rerolled face and kept it
C6_Witness ==
  /\ RerollDone /\ ~opts.cascade
  /\ \E k \in 1..Len(fresh) : fresh[k] \in RerollFaces
  /\ result[Len(result)] \in RerollFaces

\* C7 as stated: with cascade and append the returned length is the number of
\* original dice that did not reroll plus the number of fresh dice.
C7_LengthWithoutRerolled ==
  (RerollDone /\ opts.cascade /\ opts.append) =>
    Len(result) = (Len(FilteredInput) - Qualifying(FilteredInput)) + Len(fresh)

\* C7 as amended: the returned length is the number of all filtered original
\* dice, rerolled or not, plus the number of fresh dice.
C7_LengthWithOriginals ==
  (RerollDone /\ opts.cascade /\ opts.append) =>
    Len(result) = Len(FilteredInput) + Len(fresh)

\* a cascade of more than one level over a pool with a rerolled die
C7_Witness ==
  /\ RerollDone /\ opts.cascade /\ opts.append
  /\ Qualifying(FilteredInput) > 0
  /\ Len(fresh) > Qualifying(FilteredInput)

\* C8: countSuccesses is autosuccesses plus, per die, 0 below targetNumber,
\* else 2 at or above double, else 1; so the empty roll gives autosuccesses
\* and double below targetNumber makes every counted die score 2.
C8_CountSuccesses ==
  (op = "countSuccesses" /\ pc = "done") =>
    LET tn == IF cfg.targetNumber = Undefined THEN 7 ELSE cfg.targetNumber
        db == IF cfg.double = Undefined THEN 10 ELSE cfg.double
        au == IF cfg.autosuccesses = Undefined THEN 0 ELSE cfg.autosuccesses
        Ones(r) == r >= tn /\ r < db
        Twos(r) == r >= tn /\ r >= db
        Counted(r) == r >= tn
    IN  /\ successes = au + HowMany(roll, Ones) + 2 * HowMany(roll, Twos)
        /\ roll = <<>> => successes = au
        /\ db < tn => successes = au + 2 * HowMany(roll, Counted)

\* a count with double below targetNumber, a die at double and a die counted
C8_Witness ==
  /\ op = "countSuccesses" /\ pc = "done"
  /\ cfg.targetNumber = 3 /\ cfg.double = 2
  /\ \E k \in 1..Len(roll) : roll[k] = 2
  /\ \E k \in 1..Len(roll) : roll[k] >= 3

\* C9: reroll returns the filtered originals (if append) followed by the fresh
\* dice in the order drawn, level after level; roll's result starts with the
\* raw pool.
C9_Order ==
  /\ RerollDone =>
       result = (IF opts.append THEN FilteredInput ELSE <<>>) \o fresh
  /\ RollDone =>
       /\ Len(result) >= Len(theRoll)
       /\ SubSeq(result, 1, Len(theRoll)) = theRoll
       /\ result = theRoll \o fresh

\* append:false over a cascade of more than one level
C9_Witness ==
  /\ RerollDone /\ ~opts.append /\ opts.cascade
  /\ FilteredInput # <<>>
  /\ Len(fresh) > Qualifying(FilteredInput)

\* C10: when a cascading reroll returns, the dice drawn are one per die, among
\* the filtered originals and the fresh dice, that shows a rerolled face, and
\* every element returned is a face in 1..10.
C10_AllAndOnlyQualifyingRerolled ==
  (RerollDone /\ opts.cascade) =>
    /\ Len(fresh) = Qualifying(FilteredInput) + Qualifying(fresh)
    /\ \A k \in 1..Len(result) : result[k] \in 1..10

\* a cascade in which a fresh die was itself rerolled, beside a die that was kept
C10_Witness ==
  /\ RerollDone /\ opts.cascade
  /\ Qualifying(fresh) > 0
  /\ Qualifying(FilteredInput) < Len(FilteredInput)

====
